---- MODULE Spec2Model ----
(***************************************************************************)
(* Model of src/preprocess/mathjax.rs: the MathJax preprocessor of mdBook. *)
(*                                                                         *)
(* A text is a sequence of one-character strings.  Offsets are the 0-based *)
(* half-open offsets of the Rust code: the character at offset i of a text *)
(* is text[i+1], and the slice text[a..b] is SubSeq(text, a+1, b).  The     *)
(* texts are ASCII (every character the pattern tells apart is), so byte   *)
(* offsets and character offsets are the same.                             *)
(*                                                                         *)
(* The regular expression of find_mathematics is modelled by what the      *)
(* regex crate computes for it: the leftmost match, and at that position   *)
(* the first match in the priority order of a backtracking matcher         *)
(* (alternatives left to right, greedy repetition prefers another round,   *)
(* lazy repetition prefers to stop).                                       *)
(***************************************************************************)
EXTENDS Integers, Sequences, FiniteSets, TLC

\* ------------------------------------------------------------------ bounds

\* Largest number of tokens an input text is assembled from.
MaxTokens == 4

\* Largest number of tokens on either side of the escaped dollar sign of an
\* input text of the shape  delimiter X \$ Y delimiter.
MaxPlain == 1

\* ------------------------------------------------------------ characters

DOLLAR == "$"
BACKSLASH == "\\"
NEWLINE == "\n"

\* The delimiter tokens of the four conventions, as they stand in the text.
BlockDelimiter == <<"$", "$">>
InlineDelimiter == <<"$">>
LegacyInlineOpen == <<"\\", "\\", "(">>
LegacyInlineClose == <<"\\", "\\", ")">>
LegacyBlockOpen == <<"\\", "\\", "[">>
LegacyBlockClose == <<"\\", "\\", "]">>

\* ------------------------------------------------------------------ inputs

\* The pieces input texts are assembled from: every character the pattern
\* distinguishes, and the delimiter tokens as single pieces.
Tokens ==
  { <<"$">>, <<"$", "$">>, <<"\\", "$">>, <<"a">>, <<"\n">>,
    LegacyInlineOpen, LegacyInlineClose, LegacyBlockOpen, LegacyBlockClose }

RECURSIVE Flatten(_)
Flatten(ts) == IF ts = <<>> THEN <<>> ELSE Head(ts) \o Flatten(Tail(ts))

TokenTexts ==
  UNION { { Flatten(ts) : ts \in [1..n -> Tokens] } : n \in 0..MaxTokens }

\* The tokens without a dollar sign, and the non-empty texts made of them.
PlainTokens == { t \in Tokens : \A j \in 1..Len(t) : t[j] # "$" }

PlainTexts ==
  UNION { { Flatten(ts) : ts \in [1..n -> PlainTokens] } : n \in 1..MaxPlain }

\* delimiter X \$ Y delimiter, for the two dollar delimiters.
EscapedTexts ==
  { d \o x \o <<"\\", "$">> \o y \o d :
      d \in {InlineDelimiter, BlockDelimiter}, x \in PlainTexts, y \in PlainTexts }

Inputs == TokenTexts \cup EscapedTexts

\* ------------------------------------------------------ the regular expression

NoMatch == -1

\* The literal tok stands at offset i of text.
Lit(text, i, tok) ==
  /\ i + Len(tok) <= Len(text)
  /\ SubSeq(text, i + 1, i + Len(tok)) = tok

\* (?: [^$] | \\\$ )+ (close)   with one or more rounds already begun:
\* DollarUnit matches one more round at offset i and then the rest,
\* DollarRest is the position after a round: greedy, so another round is tried
\* before the closing delimiter.  Both give the end offset of the whole match.
RECURSIVE DollarUnit(_, _, _), DollarRest(_, _, _)

\* DollarUnit with the class [^$] widened to any character.
DollarUnit_AnyCharacter(text, i, close) ==
  LET other == IF i < Len(text)
               THEN DollarRest(text, i + 1, close)
               ELSE NoMatch
  IN  IF other # NoMatch THEN other
      ELSE IF Lit(text, i, <<BACKSLASH, DOLLAR>>)
           THEN DollarRest(text, i + 2, close)
           ELSE NoMatch

DollarUnit(text, i, close) ==
  LET other == IF i < Len(text) /\ text[i + 1] # DOLLAR
               THEN DollarRest(text, i + 1, close)
               ELSE NoMatch
  IN  IF other # NoMatch THEN other
      ELSE IF Lit(text, i, <<BACKSLASH, DOLLAR>>)
           THEN DollarRest(text, i + 2, close)
           ELSE NoMatch

DollarRest(text, i, close) ==
  LET more == DollarUnit(text, i, close)
  IN  IF more # NoMatch THEN more
      ELSE IF Lit(text, i, close) THEN i + Len(close)
           ELSE NoMatch

\* .+? (close)   with one character already taken: lazy, so the closing
\* delimiter is tried before another character; `.` is any character but \n.
RECURSIVE LazyRest(_, _, _)

\* LazyRest as the greedy .+ : another character is tried before the closing
\* delimiter.
LazyRest_Greedy(text, i, close) ==
  LET more == IF i < Len(text) /\ text[i + 1] # NEWLINE
              THEN LazyRest(text, i + 1, close)
              ELSE NoMatch
  IN  IF more # NoMatch THEN more
      ELSE IF Lit(text, i, close) THEN i + Len(close)
           ELSE NoMatch

LazyRest(text, i, close) ==
  IF Lit(text, i, close) THEN i + Len(close)
  ELSE IF i < Len(text) /\ text[i + 1] # NEWLINE
       THEN LazyRest(text, i + 1, close)
       ELSE NoMatch

\* LazyBody as .*? : the inner text may be empty.
LazyBody_MayBeEmpty(text, i, close) == LazyRest(text, i, close)

LazyBody(text, i, close) ==
  IF i < Len(text) /\ text[i + 1] # NEWLINE
  THEN LazyRest(text, i + 1, close)
  ELSE NoMatch

\* A capture group that did not take part in the match.
NoGroup == <<>>

NoCapture == [g0 |-> NoGroup, g1 |-> NoGroup, g3 |-> NoGroup,
              g5 |-> NoGroup, g7 |-> NoGroup]

\* The four alternatives at start offset s: the captures of the match
\* (group 0 the whole match, groups 1, 3, 5, 7 the opening delimiters), or
\* NoCapture.
BlockAlternative(text, s) ==
  LET e == IF Lit(text, s, BlockDelimiter)
           THEN DollarUnit(text, s + 2, BlockDelimiter) ELSE NoMatch
  IN  IF e = NoMatch THEN NoCapture
      ELSE [NoCapture EXCEPT !.g0 = <<s, e>>, !.g1 = <<s, s + 2>>]

InlineAlternative(text, s) ==
  LET e == IF Lit(text, s, InlineDelimiter)
           THEN DollarUnit(text, s + 1, InlineDelimiter) ELSE NoMatch
  IN  IF e = NoMatch THEN NoCapture
      ELSE [NoCapture EXCEPT !.g0 = <<s, e>>, !.g3 = <<s, s + 1>>]

LegacyInlineAlternative(text, s) ==
  LET e == IF Lit(text, s, LegacyInlineOpen)
           THEN LazyBody(text, s + 3, LegacyInlineClose) ELSE NoMatch
  IN  IF e = NoMatch THEN NoCapture
      ELSE [NoCapture EXCEPT !.g0 = <<s, e>>, !.g5 = <<s, s + 3>>]

LegacyBlockAlternative(text, s) ==
  LET e == IF Lit(text, s, LegacyBlockOpen)
           THEN LazyBody(text, s + 3, LegacyBlockClose) ELSE NoMatch
  IN  IF e = NoMatch THEN NoCapture
      ELSE [NoCapture EXCEPT !.g0 = <<s, e>>, !.g7 = <<s, s + 3>>]

\* The pattern at start offset s: the first alternative that matches.
REGEXP(text, s) ==
  LET block == BlockAlternative(text, s)
      inline == InlineAlternative(text, s)
      legacy_inline == LegacyInlineAlternative(text, s)
  IN  IF block # NoCapture THEN block
      ELSE IF inline # NoCapture THEN inline
      ELSE IF legacy_inline # NoCapture THEN legacy_inline
      ELSE LegacyBlockAlternative(text, s)

\* captures_iter: the leftmost match that starts at or after offset from.
RECURSIVE captures_iter(_, _)
captures_iter(text, from) ==
  IF from > Len(text) THEN NoCapture
  ELSE LET captures == REGEXP(text, from)
       IN  IF captures # NoCapture THEN captures
           ELSE captures_iter(text, from + 1)

\* ------------------------------------------------------------ Mathematics

Kind == {"Inline", "Block", "LegacyInline", "LegacyBlock"}

\* A value, or the panic of an out-of-range slice or a failed expect.
Ok(v) == [panic |-> FALSE, value |-> v]
Panic == [panic |-> TRUE, value |-> <<>>]

\* &s[a..b]
Slice(s, a, b) ==
  IF 0 <= a /\ a <= b /\ b <= Len(s) THEN Ok(SubSeq(s, a + 1, b)) ELSE Panic

\* strip_delimiters_from_delimited_text cutting four characters off a legacy
\* delimiter instead of three.
strip_delimiters_TooWide(kind, delimited_text) ==
  LET end == Len(delimited_text)
  IN  CASE kind = "Block"        -> Slice(delimited_text, 2, end - 2)
        [] kind = "Inline"       -> Slice(delimited_text, 1, end - 1)
        [] kind = "LegacyBlock"  -> Slice(delimited_text, 4, end - 4)
        [] kind = "LegacyInline" -> Slice(delimited_text, 4, end - 4)

strip_delimiters_from_delimited_text(kind, delimited_text) ==
  LET end == Len(delimited_text)
  IN  CASE kind = "Block"        -> Slice(delimited_text, 2, end - 2)
        [] kind = "Inline"       -> Slice(delimited_text, 1, end - 1)
        [] kind = "LegacyBlock"  -> Slice(delimited_text, 3, end - 3)
        [] kind = "LegacyInline" -> Slice(delimited_text, 3, end - 3)

\* KindOfDelimiter whose LegacyBlock arm is written with one backslash, so
\* that it never matches and the opening `\\[` falls to the default arm.
KindOfDelimiter_OneBackslash(delimiter) ==
  IF delimiter = <<"$", "$">> THEN "Block"
  ELSE IF delimiter = <<"$">> THEN "Inline"
  ELSE IF delimiter = <<"\\", "[">> THEN "LegacyBlock"
  ELSE "LegacyInline"

\* The match arm of from_capture on the text of the opening delimiter.
KindOfDelimiter(delimiter) ==
  IF delimiter = <<"$", "$">> THEN "Block"
  ELSE IF delimiter = <<"$">> THEN "Inline"
  ELSE IF delimiter = <<"\\", "\\", "[">> THEN "LegacyBlock"
  ELSE "LegacyInline"

\* captures.get(1).or(captures.get(3)).or(captures.get(5)).or(captures.get(7))
OpeningGroup(captures) ==
  IF captures.g1 # NoGroup THEN captures.g1
  ELSE IF captures.g3 # NoGroup THEN captures.g3
  ELSE IF captures.g5 # NoGroup THEN captures.g5
  ELSE captures.g7

from_capture(text, captures) ==
  LET g == OpeningGroup(captures)
  IN  IF g = NoGroup THEN Panic
      ELSE
        LET kind == KindOfDelimiter(SubSeq(text, g[1] + 1, g[2]))
            m == captures.g0
            inner == strip_delimiters_from_delimited_text(
                       kind, SubSeq(text, m[1] + 1, m[2]))
        IN  IF inner.panic THEN Panic
            ELSE Ok([start_index |-> m[1], end_index |-> m[2],
                     kind |-> kind, text |-> inner.value])

DivOpen ==
  <<"<", "d", "i", "v", " ", "c", "l", "a", "s", "s", "=", "\"",
    "m", "a", "t", "h", "\"", ">", "$", "$">>
DivClose == <<"$", "$", "<", "/", "d", "i", "v", ">">>
SpanOpen ==
  <<"<", "s", "p", "a", "n", " ", "c", "l", "a", "s", "s", "=", "\"",
    "i", "n", "l", "i", "n", "e", " ", "m", "a", "t", "h", "\"", ">", "$">>
SpanClose == <<"$", "<", "/", "s", "p", "a", "n", ">">>

\* replacement whose first arm names Kind::Block alone.
replacement_BlockOnly(m) ==
  IF m.kind \in {"Block"}
  THEN DivOpen \o m.text \o DivClose
  ELSE SpanOpen \o m.text \o SpanClose

replacement(m) ==
  IF m.kind \in {"Block", "LegacyBlock"}
  THEN DivOpen \o m.text \o DivClose
  ELSE SpanOpen \o m.text \o SpanClose

\* find_mathematics(content).collect(): every Mathematics the iterator yields,
\* each search starting where the previous match ended.
RECURSIVE CollectFrom(_, _)
CollectFrom(text, from) ==
  LET captures == captures_iter(text, from)
  IN  IF captures = NoCapture THEN <<>>
      ELSE LET r == from_capture(text, captures)
           IN  IF r.panic THEN <<>>
               ELSE <<r.value>> \o CollectFrom(text, captures.g0[2])

find_mathematics(text) == CollectFrom(text, 0)

\* ------------------------------------------------------------------- state

VARIABLES
  content,             \* the argument of replace_all_mathematics
  pc,                  \* "next", "body", "tail", "done" or "panicked"
  last_end,            \* where the CaptureMatches iterator searches next
  math,                \* the loop variable of replace_all_mathematics
  spans,               \* the Mathematics yielded so far, in order
  previous_end_index,
  replaced

vars == <<content, pc, last_end, math, spans, previous_end_index, replaced>>

NoMath == [start_index |-> 0, end_index |-> 0, kind |-> "None", text |-> <<>>]

Init ==
  /\ content \in Inputs
  /\ pc = "next"
  /\ last_end = 0
  /\ math = NoMath
  /\ spans = <<>>
  /\ previous_end_index = 0
  /\ replaced = <<>>

\* MathematicsIterator_next with the next search begun one character after the
\* start of the match instead of at its end.
MathematicsIterator_next_Overlapping ==
  /\ pc = "next"
  /\ LET captures == captures_iter(content, last_end)
     IN  IF captures = NoCapture
         THEN /\ pc' = "tail"
              /\ UNCHANGED <<last_end, math, spans>>
         ELSE LET r == from_capture(content, captures)
              IN  IF r.panic
                  THEN /\ pc' = "panicked"
                       /\ UNCHANGED <<last_end, math, spans>>
                  ELSE /\ pc' = "body"
                       /\ last_end' = captures.g0[1] + 1
                       /\ math' = r.value
                       /\ spans' = Append(spans, r.value)
  /\ UNCHANGED <<content, previous_end_index, replaced>>

\* MathematicsIterator::next, as the for loop of replace_all_mathematics
\* calls it: the next capture, made a Mathematics by from_capture.
MathematicsIterator_next ==
  /\ pc = "next"
  /\ LET captures == captures_iter(content, last_end)
     IN  IF captures = NoCapture
         THEN /\ pc' = "tail"
              /\ UNCHANGED <<last_end, math, spans>>
         ELSE LET r == from_capture(content, captures)
              IN  IF r.panic
                  THEN /\ pc' = "panicked"
                       /\ UNCHANGED <<last_end, math, spans>>
                  ELSE /\ pc' = "body"
                       /\ last_end' = captures.g0[2]
                       /\ math' = r.value
                       /\ spans' = Append(spans, r.value)
  /\ UNCHANGED <<content, previous_end_index, replaced>>

\* LoopBody with previous_end_index set to the start of the match, so that
\* the matched text is copied after its replacement.
LoopBody_KeepsMatch ==
  /\ pc = "body"
  /\ LET before == Slice(content, previous_end_index, math.start_index)
     IN  IF before.panic
         THEN /\ pc' = "panicked"
              /\ UNCHANGED <<replaced, previous_end_index>>
         ELSE /\ replaced' = replaced \o before.value \o replacement(math)
              /\ previous_end_index' = math.start_index
              /\ pc' = "next"
  /\ UNCHANGED <<content, last_end, math, spans>>

\* The body of the for loop of replace_all_mathematics.
LoopBody ==
  /\ pc = "body"
  /\ LET before == Slice(content, previous_end_index, math.start_index)
     IN  IF before.panic
         THEN /\ pc' = "panicked"
              /\ UNCHANGED <<replaced, previous_end_index>>
         ELSE /\ replaced' = replaced \o before.value \o replacement(math)
              /\ previous_end_index' = math.end_index
              /\ pc' = "next"
  /\ UNCHANGED <<content, last_end, math, spans>>

\* replaced.push_str(&content[previous_end_index..]) and the return.
PushTail ==
  /\ pc = "tail"
  /\ LET rest == Slice(content, previous_end_index, Len(content))
     IN  IF rest.panic
         THEN /\ pc' = "panicked"
              /\ UNCHANGED replaced
         ELSE /\ replaced' = replaced \o rest.value
              /\ pc' = "done"
  /\ UNCHANGED <<content, last_end, math, spans, previous_end_index>>

Next == MathematicsIterator_next \/ LoopBody \/ PushTail

Spec == Init /\ [][Next]_vars

\* ------------------------------------------------------------ claim helpers

\* The opening and the closing delimiter of a convention.
OpenOf(kind) ==
  CASE kind = "Block"        -> BlockDelimiter
    [] kind = "Inline"       -> InlineDelimiter
    [] kind = "LegacyInline" -> LegacyInlineOpen
    [] kind = "LegacyBlock"  -> LegacyBlockOpen

CloseOf(kind) ==
  CASE kind = "Block"        -> BlockDelimiter
    [] kind = "Inline"       -> InlineDelimiter
    [] kind = "LegacyInline" -> LegacyInlineClose
    [] kind = "LegacyBlock"  -> LegacyBlockClose

\* tok stands somewhere in text.
Contains(text, tok) == \E i \in 0..Len(text) : Lit(text, i, tok)

\* Every `$` of text stands right after a backslash.
DollarsEscaped(text) ==
  \A j \in 1..Len(text) : text[j] = "$" => (j > 1 /\ text[j - 1] = "\\")

\* text is  delimiter X delimiter  with X non-empty; X is the text between.
Wrapped(text, open, close) ==
  /\ Len(text) > Len(open) + Len(close)
  /\ Lit(text, 0, open)
  /\ Lit(text, Len(text) - Len(close), close)

Between(text, open, close) ==
  SubSeq(text, Len(open) + 1, Len(text) - Len(close))

\* The one span that covers the whole of content, of the given convention.
WholeSpan(kind) ==
  [start_index |-> 0, end_index |-> Len(content), kind |-> kind,
   text |-> Between(content, OpenOf(kind), CloseOf(kind))]

\* The expected output, from the spans ss (from the k-th on) and the end
\* offset prev of the span before: untouched text, replacement, and so on.
RECURSIVE Spliced(_, _, _, _)
Spliced(text, ss, k, prev) ==
  IF k > Len(ss) THEN SubSeq(text, prev + 1, Len(text))
  ELSE SubSeq(text, prev + 1, ss[k].start_index)
         \o (IF ss[k].kind \in {"Block", "LegacyBlock"}
             THEN DivOpen \o ss[k].text \o DivClose
             ELSE SpanOpen \o ss[k].text \o SpanClose)
         \o Spliced(text, ss, k + 1, ss[k].end_index)

\* ------------------------------------------------------------------ claims

\* C1: when replace_all_mathematics returns, its output is the input with
\* each span that find_mathematics yields replaced by its replacement, in
\* order, and every range outside the spans copied as it stands.
C1_OutputIsSplice ==
  pc = "done" =>
    LET found == find_mathematics(content)
    IN  /\ spans = found
        /\ replaced = Spliced(content, found, 1, 0)

\* A run that returned after replacing a span that has text after it.
C1_Witness ==
  /\ pc = "done"
  /\ spans # <<>>
  /\ spans[Len(spans)].end_index < Len(content)
  /\ replaced # content

\* C2: the replacement of a span depends only on its kind and inner text T:
\* <div class="math">$$T$$</div> for Block and LegacyBlock,
\* <span class="inline math">$T$</span> for Inline and LegacyInline; so after
\* the loop body the output ends with exactly that markup, and two spans of
\* the same inner text, one legacy and one dollar, give the same replacement.
C2_Markup(kind, text) ==
  IF kind \in {"Block", "LegacyBlock"}
  THEN <<"<", "d", "i", "v", " ", "c", "l", "a", "s", "s", "=", "\"",
         "m", "a", "t", "h", "\"", ">", "$", "$">>
         \o text \o <<"$", "$", "<", "/", "d", "i", "v", ">">>
  ELSE <<"<", "s", "p", "a", "n", " ", "c", "l", "a", "s", "s", "=", "\"",
         "i", "n", "l", "i", "n", "e", " ", "m", "a", "t", "h", "\"", ">", "$">>
         \o text \o <<"$", "<", "/", "s", "p", "a", "n", ">">>

C2_ReplacementMarkup ==
  /\ (pc = "next" /\ spans # <<>>) =>
       LET m == spans[Len(spans)]
           markup == C2_Markup(m.kind, m.text)
       IN  /\ Len(replaced) >= Len(markup)
           /\ SubSeq(replaced, Len(replaced) - Len(markup) + 1, Len(replaced))
                = markup
  /\ \A i, j \in 1..Len(spans) :
       ( /\ spans[i].text = spans[j].text
         /\ \/ {spans[i].kind, spans[j].kind} \subseteq {"Block", "LegacyBlock"}
            \/ {spans[i].kind, spans[j].kind} \subseteq {"Inline", "LegacyInline"} )
       => replacement(spans[i]) = replacement(spans[j])

\* A LegacyBlock span has just been replaced.
C2_Witness ==
  /\ pc = "next"
  /\ spans # <<>>
  /\ spans[Len(spans)].kind = "LegacyBlock"
  /\ replaced # <<>>

\* C3: an escaped dollar sign does not end a span: when content is
\* `$` X `\$` Y `$` with X and Y non-empty and free of `$`, the scan yields
\* the one Inline span of inner text X `\$` Y, and when content is
\* `$$` X `\$` Y `$$` the one Block span of inner text X `\$` Y.
C3_Shape(delimiter) ==
  \E x \in PlainTexts, y \in PlainTexts :
    content = delimiter \o x \o <<"\\", "$">> \o y \o delimiter

C3_EscapedDollarKept ==
  pc = "done" =>
    /\ C3_Shape(InlineDelimiter) => spans = <<WholeSpan("Inline")>>
    /\ C3_Shape(BlockDelimiter) => spans = <<WholeSpan("Block")>>

\* C4: for each of the four conventions, a span that is opened and closed by
\* that convention's delimiters and whose inner text (made of ordinary
\* characters and newlines) holds a newline is yielded as the one span of
\* that convention, the newline kept.
C4_MultiLine(kind) ==
  /\ Wrapped(content, OpenOf(kind), CloseOf(kind))
  /\ LET inner == Between(content, OpenOf(kind), CloseOf(kind))
     IN  /\ \A j \in 1..Len(inner) : inner[j] \in {"a", "\n"}
         /\ \E j \in 1..Len(inner) : inner[j] = "\n"

C4_EveryConventionSpansLines ==
  pc = "done" =>
    \A kind \in Kind : C4_MultiLine(kind) => spans = <<WholeSpan(kind)>>

\* C5 as claimed: no inner text holds a delimiter: a LegacyInline inner text
\* holds neither `\\(` nor `\\)`, a LegacyBlock one neither `\\[` nor `\\]`,
\* and in a Block or Inline one every `$` stands after a backslash.
C5_NoDelimiterInside ==
  \A i \in 1..Len(spans) :
    LET m == spans[i]
    IN  /\ m.kind \in {"LegacyInline", "LegacyBlock"} =>
             /\ ~Contains(m.text, OpenOf(m.kind))
             /\ ~Contains(m.text, CloseOf(m.kind))
        /\ m.kind \in {"Block", "Inline"} => DollarsEscaped(m.text)

\* C5 amended: in a Block or Inline inner text every `$` stands after a
\* backslash; a legacy inner text holds its closing delimiter nowhere but,
\* possibly, at its very start (the inner text has at least one character, so
\* a closing delimiter right after the opening one is taken as content), and
\* it may hold opening delimiters.
C5_InnerText ==
  \A i \in 1..Len(spans) :
    LET m == spans[i]
    IN  /\ m.text # <<>>
        /\ m.kind \in {"LegacyInline", "LegacyBlock"} =>
             ~Contains(Tail(m.text), CloseOf(m.kind))
        /\ m.kind \in {"Block", "Inline"} => DollarsEscaped(m.text)

\* A legacy span whose inner text starts with its own closing delimiter.
C5_Witness ==
  \E i \in 1..Len(spans) :
    /\ spans[i].kind \in {"LegacyInline", "LegacyBlock"}
    /\ Lit(spans[i].text, 0, CloseOf(spans[i].kind))

\* C6 as claimed: no `$` that opens or closes an Inline span stands next to
\* another `$` of the text, and `$$` X `$$` with X non-empty and free of `$`
\* yields the one Block span of inner text X.
C6_DollarWrapped ==
  /\ Wrapped(content, BlockDelimiter, BlockDelimiter)
  /\ ~Contains(Between(content, BlockDelimiter, BlockDelimiter), <<"$">>)

C6_NeverSplitsDoubleDollar ==
  /\ \A i \in 1..Len(spans) :
       spans[i].kind = "Inline" =>
         LET s == spans[i].start_index
             e == spans[i].end_index
         IN  /\ s > 0 => content[s] # "$"
             /\ content[s + 2] # "$"
             /\ content[e - 1] # "$"
             /\ e < Len(content) => content[e + 1] # "$"
  /\ (pc = "done" /\ C6_DollarWrapped) => spans = <<WholeSpan("Block")>>

\* C6 amended: inside an Inline span no `$` stands next to its opening or its
\* closing `$` (a `$` may stand right before the opening or right after the
\* closing one, as in `$$a$` and `$a$$a$`); where `$$` opens a match the
\* span is a Block; and `$$` X `$$` with X non-empty and free of `$` yields
\* the one Block span of inner text X.
C6_BlockPreferred ==
  /\ \A i \in 1..Len(spans) :
       LET s == spans[i].start_index
           e == spans[i].end_index
       IN  /\ spans[i].kind = "Inline" =>
                 /\ content[s + 2] # "$"
                 /\ content[e - 1] # "$"
           /\ Lit(content, s, BlockDelimiter) => spans[i].kind = "Block"
  /\ (pc = "done" /\ C6_DollarWrapped) => spans = <<WholeSpan("Block")>>

\* `$$` X `$$` was scanned to the end and gave a Block span.
C6_Witness ==
  /\ pc = "done"
  /\ C6_DollarWrapped
  /\ Len(spans) = 1
  /\ spans[1].kind = "Block"

\* C7: the spans yielded are in order and do not overlap: each has
\* start_index < end_index <= len(content), each starts at or after the end
\* of the one before, and the iterator searches on from the end of the last.
C7_OrderedDisjoint ==
  /\ \A i \in 1..Len(spans) :
       /\ 0 <= spans[i].start_index
       /\ spans[i].start_index < spans[i].end_index
       /\ spans[i].end_index <= Len(content)
  /\ \A i \in 1..(Len(spans) - 1) :
       /\ spans[i].end_index <= spans[i + 1].start_index
       /\ spans[i].start_index < spans[i + 1].start_index
  /\ spans # <<>> => last_end = spans[Len(spans)].end_index

\* Two spans were yielded.
C7_Witness == Len(spans) >= 2

\* C8: replace_all_mathematics never panics: the expect of from_capture
\* does not fire, the fixed-length slices of
\* strip_delimiters_from_delimited_text are in range, and the range slices of
\* replace_all_mathematics are in range wherever they are taken.
C8_Total ==
  /\ pc \in {"next", "body", "tail", "done"}
  /\ pc = "body" =>
       /\ previous_end_index <= math.start_index
       /\ math.start_index <= Len(content)
  /\ pc = "tail" => previous_end_index <= Len(content)

\* A call returned whose content is one match of the least length a legacy
\* match can have (the fixed-length slices meet in one character).
C8_Witness ==
  /\ pc = "done"
  /\ Len(content) = 7
  /\ Len(spans) = 1
  /\ spans[1].kind \in {"LegacyInline", "LegacyBlock"}
  /\ Len(spans[1].text) = 1

\* C9: a text without a complete pair of delimiters of one convention (an
\* opening delimiter and, at least one character after it, the closing
\* delimiter of the same convention) yields no span and is returned as it is.
NoCompletePair(text) ==
  \A kind \in Kind :
    \A i \in 0..Len(text) :
      Lit(text, i, OpenOf(kind)) =>
        \A j \in (i + Len(OpenOf(kind)) + 1)..Len(text) :
          ~Lit(text, j, CloseOf(kind))

C9_IdentityOnAbsence ==
  NoCompletePair(content) =>
    /\ spans = <<>>
    /\ pc \notin {"body", "panicked"}
    /\ pc = "done" => replaced = content

\* A call returned on a text that opens with `$$` and holds a closing
\* delimiter of another convention only.
C9_Witness ==
  /\ pc = "done"
  /\ NoCompletePair(content)
  /\ Lit(content, 0, BlockDelimiter)
  /\ Contains(content, LegacyBlockClose)

\* C10: every span is well-formed: content[start_index..end_index] is the
\* opening delimiter of its kind, its inner text and the closing delimiter
\* of its kind; the kind is that of the opening delimiter that stands at
\* start_index; the inner text is not empty; `$$$$` alone yields no span.
C10_KindAt(text, s) ==
  IF Lit(text, s, BlockDelimiter) THEN "Block"
  ELSE IF Lit(text, s, InlineDelimiter) THEN "Inline"
  ELSE IF Lit(text, s, LegacyInlineOpen) THEN "LegacyInline"
  ELSE IF Lit(text, s, LegacyBlockOpen) THEN "LegacyBlock"
  ELSE "None"

C10_WellFormed ==
  /\ \A i \in 1..Len(spans) :
       LET m == spans[i]
       IN  /\ m.kind \in Kind
           /\ m.kind = C10_KindAt(content, m.start_index)
           /\ m.text # <<>>
           /\ 0 <= m.start_index /\ m.end_index <= Len(content)
           /\ SubSeq(content, m.start_index + 1, m.end_index)
                = OpenOf(m.kind) \o m.text \o CloseOf(m.kind)
  /\ content = <<"$", "$", "$", "$">> => spans = <<>>

\* A LegacyBlock span that does not start the text.
C10_Witness ==
  \E i \in 1..Len(spans) :
    /\ spans[i].kind = "LegacyBlock"
    /\ spans[i].start_index > 0

====
